---- MODULE Spec2Model ----
(***************************************************************************)
(* vault-operator-helper (main.go): a sidecar that lists the namespaces    *)
(* matching a label selector, stores their comma-joined names under one    *)
(* key of a ConfigMap, and sends SIGTERM to the main container when an     *)
(* Update of that ConfigMap succeeded.                                     *)
(*                                                                         *)
(* Goroutines: 0 is main(); 1..NumHandlers are the goroutines on which the *)
(* informer delivers add/update/delete callbacks.  Every one of them runs  *)
(* updateConfigMap(), modelled one API call (or one branch) per step.      *)
(***************************************************************************)
EXTENDS Naturals, Sequences, FiniteSets, TLC

\* ------------------------------------------------------------------ bounds
NumNames == 2        \* namespaces that may carry the label
NumHandlers == 2     \* concurrent event-delivery goroutines
MaxVersion == 3      \* no callback and no other client starts at this resourceVersion
NumPids == 2         \* processes pgrep may report

\* --------------------------------------------------------------- constants
\* Names of the namespaces, in lexicographic order: NameOf[i] < NameOf[j]
\* exactly when i < j.
NameOf == <<"a", "b", "c", "d", "e", "f">>
Names == 1..NumNames

\* flag defaults (init)
watchKey == "WATCH_NAMESPACE"
otherKey == "OTHER"

Main == 0
Handlers == 1..NumHandlers
Threads == {Main} \cup Handlers

VARIABLES
  proc,          \* "running", "exit0", "exit1", "killed" or "panic"
  lock,          \* sync.Mutex: TRUE when held
  watchStarted,  \* main() has installed the signal handler and the informer
  members,       \* the namespaces that carry the label now (API server)
  cmExists,      \* the ConfigMap exists (API server)
  cmData,        \* its Data: a function from keys to strings
  cmVersion,     \* its metadata.resourceVersion
  pc,            \* each goroutine's position
  local,         \* each goroutine's locals of updateConfigMap
  hist           \* history of the run (read by the properties only)

vars == <<proc, lock, watchStarted, members, cmExists, cmData, cmVersion,
          pc, local, hist>>

\* ----------------------------------------------------------- pure helpers
\* strings.Join(elems, sep)
RECURSIVE Join(_, _)
Join(elems, sep) ==
  IF Len(elems) = 0 THEN ""
  ELSE IF Len(elems) = 1 THEN elems[1]
  ELSE elems[1] \o sep \o Join(Tail(elems), sep)

\* Every order in which the API server may return the items of set S.
Listings(S) ==
  {s \in [1..Cardinality(S) -> S] : \A i, j \in 1..Cardinality(S) : s[i] = s[j] => i = j}

\* nsList of getFilteredNamespaces: the names of the items, in listing order.
NsNames(items) == [i \in 1..Len(items) |-> NameOf[items[i]]]

\* A Go map with no entries; a ConfigMap without data decodes to a nil map.
NilData == [k \in {} |-> ""]

\* m[k] of a Go map[string]string: the zero value when the key is absent.
MapGet(m, k) == IF k \in DOMAIN m THEN m[k] ELSE ""

\* A map holding the entry of k alone.
MapReplace(m, k, v) == [x \in {k} |-> v]

\* m[k] = v on a non-nil Go map.
MapSet(m, k, v) == [x \in (DOMAIN m) \cup {k} |-> IF x = k THEN v ELSE m[x]]

NoVersion == 0

\* No ConfigMap object held.
NoCm == [data |-> NilData, version |-> NoVersion]

\* The locals of updateConfigMap before the pass has set them.
InitLocal ==
  [namespaces |-> <<>>,     \* result of getFilteredNamespaces
   newValue |-> "",
   cm |-> NoCm,             \* object returned by Get
   getResult |-> "none",    \* "found", "notfound" or "error"
   stored |-> "",           \* cm.Data[watchKey] as Get returned it
   nCreate |-> 0,           \* Create calls of this pass
   nUpdate |-> 0,           \* Update calls of this pass
   nSignal |-> 0,           \* killMainContainer calls of this pass
   wrote |-> "no",          \* "create" or "update": the store write that succeeded
   outcome |-> "none",      \* how the pass ended
   signal |-> "none",       \* "nopid", "killfail" or "sent": how killMainContainer ended
   pidList |-> <<>>,        \* the fields of the output of pgrep
   pid |-> 0,               \* result of getMainContainerPID
   killed |-> <<>>,         \* pids SIGTERM was delivered to
   afterStable |-> FALSE]   \* the List of this pass followed a stable state

InitHist ==
  [changed |-> FALSE,       \* membership changed since the List of the pass in progress
   stable |-> FALSE,        \* last pass succeeded and membership unchanged since its List
   createsOk |-> 0,         \* Create calls that succeeded in this run (counted to 2)
   updatesOk |-> 0,         \* Update calls that succeeded after a Create (counted to 1)
   extSinceGet |-> FALSE]   \* another client wrote since the Get of the pass in progress

Init ==
  /\ proc = "running"
  /\ lock = FALSE
  /\ watchStarted = FALSE
  /\ members \in SUBSET Names
  /\ cmExists = FALSE
  /\ cmData = NilData
  /\ cmVersion = 1
  /\ pc = [t \in Threads |-> IF t = Main THEN "boot" ELSE "idle"]
  /\ local = [t \in Threads |-> InitLocal]
  /\ hist = InitHist

\* Positions of a pass after its List call, and after its Get call found
\* the object.
AfterList == {"get", "create", "update", "pgrep", "kill", "ret"}
AfterGet == {"update"}

\* Some pass is at one of the positions.
PassAt(positions) == \E t \in Threads : pc[t] \in positions

\* --------------------------------------------------------------- environment
\* A namespace gains or loses the label (or is created or deleted).
ClusterChange(n) ==
  /\ proc = "running"
  /\ members' = IF n \in members THEN members \ {n} ELSE members \cup {n}
  /\ hist' = [hist EXCEPT !.changed = PassAt(AfterList), !.stable = FALSE]
  /\ UNCHANGED <<proc, lock, watchStarted, cmExists, cmData, cmVersion, pc, local>>

\* The process is gone: its goroutines, their locals and the mutex with it.
Died ==
  /\ lock' = FALSE
  /\ pc' = [t \in Threads |-> "dead"]
  /\ local' = [t \in Threads |-> InitLocal]

\* main(), lines 49-59: getKubeConfig and kubernetes.NewForConfig; os.Exit(1)
\* when either fails, otherwise the startup call of updateConfigMap (line 62).
Bootstrap ==
  /\ proc = "running"
  /\ pc[Main] = "boot"
  /\ \/ /\ pc' = [pc EXCEPT ![Main] = "acquire"]
        /\ UNCHANGED <<proc, lock, local>>
     \/ /\ proc' = "exit1"
        /\ Died
  /\ UNCHANGED <<watchStarted, members, cmExists, cmData, cmVersion, hist>>

\* main(), lines 64-85: signal.Notify, the goroutine waiting on signalCh,
\* go watchNamespaces(stopCh), then block on stopCh.
StartWatch ==
  /\ proc = "running"
  /\ pc[Main] = "startwatch"
  /\ watchStarted' = TRUE
  /\ pc' = [pc EXCEPT ![Main] = "blocked"]
  /\ UNCHANGED <<proc, lock, members, cmExists, cmData, cmVersion, local, hist>>

\* Callbacks delivered from the start of the process, before main() has
\* started the watch.
TriggerBeforeWatch(t) ==
  /\ proc = "running"
  /\ pc[t] = "idle"
  /\ cmVersion < MaxVersion
  /\ pc' = [pc EXCEPT ![t] = "acquire"]
  /\ UNCHANGED <<proc, lock, watchStarted, members, cmExists, cmData, cmVersion, local, hist>>

\* watchNamespaces, lines 120-124: the informer calls AddFunc, UpdateFunc or
\* DeleteFunc on goroutine t; each of them calls updateConfigMap().
Trigger(t) ==
  /\ proc = "running"
  /\ watchStarted
  /\ pc[t] = "idle"
  /\ cmVersion < MaxVersion
  /\ pc' = [pc EXCEPT ![t] = "acquire"]
  /\ UNCHANGED <<proc, lock, watchStarted, members, cmExists, cmData, cmVersion, local, hist>>

\* SIGTERM or SIGINT arrives.  Once main() has called signal.Notify the
\* goroutine of lines 74-79 closes stopCh and calls os.Exit(0); before that
\* the signal's default disposition ends the process.
Shutdown ==
  /\ proc = "running"
  /\ proc' = IF watchStarted THEN "exit0" ELSE "killed"
  /\ Died
  /\ UNCHANGED <<watchStarted, members, cmExists, cmData, cmVersion, hist>>

\* ---------------------------------------------------------- updateConfigMap
\* Lock that does not wait for the holder.
LockNoWait(t) ==
  /\ proc = "running"
  /\ pc[t] = "acquire"
  /\ lock' = TRUE
  /\ pc' = [pc EXCEPT ![t] = "list"]
  /\ local' = [local EXCEPT ![t] = InitLocal]
  /\ UNCHANGED <<proc, watchStarted, members, cmExists, cmData, cmVersion, hist>>

\* lock.Lock(), line 132.
Lock(t) ==
  /\ proc = "running"
  /\ pc[t] = "acquire"
  /\ lock = FALSE
  /\ lock' = TRUE
  /\ pc' = [pc EXCEPT ![t] = "list"]
  /\ local' = [local EXCEPT ![t] = InitLocal]
  /\ UNCHANGED <<proc, watchStarted, members, cmExists, cmData, cmVersion, hist>>

\* newValue of line 141.
NewValue(namespaces) == Join(namespaces, ",")

\* The error of List printed, and the pass going on to its Get call.
AfterListErrorGet == "get"

\* Where updateConfigMap goes when getFilteredNamespaces returned an error:
\* line 138, return.
AfterListError == "ret"

\* getFilteredNamespaces (lines 169-182) and lines 135-141: the List call fails
\* and the pass returns, or it returns the members in some order and newValue
\* is their names joined in that order.
ListStep(t) ==
  /\ proc = "running"
  /\ pc[t] = "list"
  /\ \/ /\ local' = [local EXCEPT ![t].outcome = "listfail"]
        /\ pc' = [pc EXCEPT ![t] = AfterListError]
        /\ UNCHANGED hist
     \/ \E items \in Listings(members) :
          /\ local' = [local EXCEPT ![t].namespaces = NsNames(items),
                                    ![t].newValue = NewValue(NsNames(items)),
                                    ![t].afterStable = hist.stable]
          /\ pc' = [pc EXCEPT ![t] = "get"]
          /\ hist' = [hist EXCEPT !.changed = FALSE]
  /\ UNCHANGED <<proc, lock, watchStarted, members, cmExists, cmData, cmVersion>>

\* An object built anew from the stored data: it carries no resourceVersion.
GetObjectNoVersion == [data |-> cmData, version |-> NoVersion]

\* The object a Get returns: the stored data and its resourceVersion.
GetObject == [data |-> cmData, version |-> cmVersion]

\* The comparison of line 152 inverted.
ValueChanged(obj, newValue) == MapGet(obj.data, watchKey) # newValue

\* Line 152: the value under watchKey of the object equals newValue.
ValueUnchanged(obj, newValue) == MapGet(obj.data, watchKey) = newValue

\* Get, lines 144-154: the object, or an error (not found, or any other
\* failure of the call).  On every error createConfigMap is called; with the
\* object in hand the pass returns when its value is newValue already.
GetStep(t) ==
  /\ proc = "running"
  /\ pc[t] = "get"
  /\ \/ /\ cmExists
        /\ local' = [local EXCEPT ![t].cm = GetObject,
                                  ![t].getResult = "found",
                                  ![t].stored = MapGet(cmData, watchKey),
                                  ![t].outcome =
                                     IF ValueUnchanged(GetObject, local[t].newValue)
                                       THEN "noop" ELSE @]
        /\ pc' = [pc EXCEPT ![t] = IF ValueUnchanged(GetObject, local[t].newValue)
                                     THEN "ret" ELSE "update"]
     \/ /\ ~cmExists
        /\ local' = [local EXCEPT ![t].getResult = "notfound"]
        /\ pc' = [pc EXCEPT ![t] = "create"]
     \/ /\ local' = [local EXCEPT ![t].getResult = "error"]
        /\ pc' = [pc EXCEPT ![t] = "create"]
  /\ hist' = [hist EXCEPT !.extSinceGet = FALSE]
  /\ UNCHANGED <<proc, lock, watchStarted, members, cmExists, cmData, cmVersion>>

\* createConfigMap followed by killMainContainer.
AfterCreateSignal == "pgrep"

\* Where updateConfigMap goes after createConfigMap: line 148, return.
AfterCreate == "ret"

\* A call that replaces the object when it exists.
CreateOrReplaceAccepted == TRUE

\* The Create call of line 196: the API server refuses it when the object
\* exists.
CreateAccepted == ~cmExists

\* createConfigMap (lines 185-200): one Create call of an object whose Data
\* holds watchKey alone; the call may also fail for any other reason.  The
\* error is only printed.
CreateStep(t) ==
  /\ proc = "running"
  /\ pc[t] = "create"
  /\ \/ /\ CreateAccepted
        /\ cmExists' = TRUE
        /\ cmData' = [k \in {watchKey} |-> local[t].newValue]
        /\ cmVersion' = cmVersion + 1
        /\ local' = [local EXCEPT ![t].nCreate = @ + 1, ![t].wrote = "create",
                                  ![t].outcome = "created"]
        /\ hist' = [hist EXCEPT !.createsOk = IF @ < 2 THEN @ + 1 ELSE @]
     \/ /\ local' = [local EXCEPT ![t].nCreate = @ + 1, ![t].outcome = "createfail"]
        /\ UNCHANGED <<cmExists, cmData, cmVersion, hist>>
  /\ pc' = [pc EXCEPT ![t] = AfterCreate]
  /\ UNCHANGED <<proc, lock, watchStarted, members>>

\* The API server accepts an Update of an existing object when the object sent
\* carries the current resourceVersion, or none.
UpdateAccepted(obj) ==
  /\ cmExists
  /\ obj.version \in {NoVersion, cmVersion}

\* The error of Update printed, and killMainContainer called all the same.
AfterUpdateErrorSignal == "pgrep"

\* Where updateConfigMap goes when Update returned an error: line 161, return.
AfterUpdateError == "ret"

\* Lines 156-165: cm.Data[watchKey] = newValue panics on the nil map of an
\* object without data (the deferred Unlock runs, then the process dies);
\* otherwise one Update call of the object Get returned, and on success
\* killMainContainer.
UpdateStep(t) ==
  /\ proc = "running"
  /\ pc[t] = "update"
  /\ IF DOMAIN local[t].cm.data = {}
       THEN /\ proc' = "panic"
            /\ Died
            /\ UNCHANGED <<cmData, cmVersion, hist>>
       ELSE LET obj == [local[t].cm EXCEPT !.data = MapSet(@, watchKey, local[t].newValue)]
            IN /\ UNCHANGED <<proc, lock>>
               /\ \/ /\ UpdateAccepted(obj)
                     /\ cmData' = obj.data
                     /\ cmVersion' = cmVersion + 1
                     /\ local' = [local EXCEPT ![t].cm = obj, ![t].nUpdate = @ + 1,
                                               ![t].wrote = "update",
                                               ![t].outcome = "updated"]
                     /\ pc' = [pc EXCEPT ![t] = "pgrep"]
                     /\ hist' = [hist EXCEPT !.extSinceGet = FALSE, !.updatesOk =
                                   IF hist.createsOk > 0 /\ @ < 1 THEN @ + 1 ELSE @]
                  \/ /\ local' = [local EXCEPT ![t].cm = obj, ![t].nUpdate = @ + 1,
                                               ![t].outcome = "updatefail"]
                     /\ pc' = [pc EXCEPT ![t] = AfterUpdateError]
                     /\ hist' = [hist EXCEPT !.extSinceGet = FALSE]
                     /\ UNCHANGED <<cmData, cmVersion>>
  /\ UNCHANGED <<watchStarted, members, cmExists>>

\* What pgrep -f mainContainerName may print: the pids of the matching
\* processes, none or several.  Nothing but the place of a pid in the output
\* is used by the code, so the processes are numbered in the order pgrep
\* lists them.
PgrepOutputs == {[i \in 1..k |-> i] : k \in 0..NumPids}

\* The last pid of the output taken in place of the first.
MainContainerPIDLast(out) == IF Len(out) > 0 THEN out[Len(out)] ELSE 0

\* getMainContainerPID (lines 221-233) on the output of pgrep: the first pid,
\* or 0 for its errors (pgrep exits non-zero when nothing matches, line 223;
\* no field in the output, line 232).
MainContainerPID(out) == IF Len(out) > 0 THEN out[1] ELSE 0

\* On an error of the signal step, an Update that puts the old value back.
OnSignalErrorRollback(t) ==
  /\ cmData' = MapSet(cmData, watchKey, local[t].stored)
  /\ cmVersion' = cmVersion + 1
  /\ UNCHANGED cmExists

\* killMainContainer, lines 208-211 and 215-217: an error of pgrep or of kill
\* is printed, and nothing else is done.
OnSignalError(t) == UNCHANGED <<cmExists, cmData, cmVersion>>

\* killMainContainer, lines 203-211: look the pid up; return on an error.
PgrepStep(t) ==
  /\ proc = "running"
  /\ pc[t] = "pgrep"
  /\ \E out \in PgrepOutputs :
       LET p == MainContainerPID(out)
       IN IF p = 0
            THEN /\ local' = [local EXCEPT ![t].nSignal = @ + 1, ![t].signal = "nopid",
                                           ![t].pidList = out]
                 /\ pc' = [pc EXCEPT ![t] = "ret"]
                 /\ OnSignalError(t)
            ELSE /\ local' = [local EXCEPT ![t].nSignal = @ + 1, ![t].pid = p,
                                           ![t].pidList = out]
                 /\ pc' = [pc EXCEPT ![t] = "kill"]
                 /\ UNCHANGED <<cmExists, cmData, cmVersion>>
  /\ UNCHANGED <<proc, lock, watchStarted, members, hist>>

\* killMainContainer, lines 213-217: kill -SIGTERM pid; its error is only printed.
KillStep(t) ==
  /\ proc = "running"
  /\ pc[t] = "kill"
  /\ \/ /\ local' = [local EXCEPT ![t].killed = Append(@, local[t].pid),
                                  ![t].signal = "sent"]
        /\ UNCHANGED <<cmExists, cmData, cmVersion>>
     \/ /\ local' = [local EXCEPT ![t].signal = "killfail"]
        /\ OnSignalError(t)
  /\ pc' = [pc EXCEPT ![t] = "ret"]
  /\ UNCHANGED <<proc, lock, watchStarted, members, hist>>

\* Outcomes of a pass that ended successfully.
Success == {"created", "updated", "noop"}

\* A return that leaves the mutex locked when the List call had failed.
UnlockLeak(t) ==
  /\ proc = "running"
  /\ pc[t] = "ret"
  /\ lock' = (local[t].outcome = "listfail")
  /\ pc' = [pc EXCEPT ![t] = IF t = Main THEN "startwatch" ELSE "idle"]
  /\ hist' = [hist EXCEPT !.stable = (local[t].outcome \in Success /\ ~hist.changed),
                          !.changed = FALSE]
  /\ local' = [local EXCEPT ![t] = InitLocal]
  /\ UNCHANGED <<proc, watchStarted, members, cmExists, cmData, cmVersion>>

\* The deferred lock.Unlock() of line 133, as updateConfigMap returns: main()
\* goes on to line 64, a callback returns to the informer.
Unlock(t) ==
  /\ proc = "running"
  /\ pc[t] = "ret"
  /\ lock' = FALSE
  /\ pc' = [pc EXCEPT ![t] = IF t = Main THEN "startwatch" ELSE "idle"]
  /\ hist' = [hist EXCEPT !.stable = (local[t].outcome \in Success /\ ~hist.changed),
                          !.changed = FALSE]
  /\ local' = [local EXCEPT ![t] = InitLocal]
  /\ UNCHANGED <<proc, watchStarted, members, cmExists, cmData, cmVersion>>

\* ------------------------------------------------------------ other clients
\* Data another client of the API server may store in the ConfigMap.
ExtData ==
  {NilData,
   [k \in {watchKey, otherKey} |-> IF k = watchKey THEN "a" ELSE "v"]}

\* Another client (a second instance, an operator with kubectl) replaces the
\* data of the ConfigMap.
ExternalWrite(d) ==
  /\ proc = "running"
  /\ cmVersion < MaxVersion
  /\ cmExists
  /\ UNCHANGED cmExists
  /\ cmData' = d
  /\ cmVersion' = cmVersion + 1
  /\ hist' = [hist EXCEPT !.extSinceGet = PassAt(AfterGet), !.stable = FALSE]
  /\ UNCHANGED <<proc, lock, watchStarted, members, pc, local>>

\* ------------------------------------------------------------ specifications
Pass(t) ==
  \/ Lock(t)
  \/ ListStep(t)
  \/ GetStep(t)
  \/ CreateStep(t)
  \/ UpdateStep(t)
  \/ PgrepStep(t)
  \/ KillStep(t)
  \/ Unlock(t)

\* A single instance, the only writer of the ConfigMap.
Next ==
  \/ Bootstrap
  \/ StartWatch
  \/ Shutdown
  \/ \E n \in Names : ClusterChange(n)
  \/ \E t \in Handlers : Trigger(t)
  \/ \E t \in Threads : Pass(t)

Spec == Init /\ [][Next]_vars

\* The steps of the program and the termination signal, the labelled
\* namespaces staying as they were at the start: no step of a pass waits for
\* a change of membership.
FairNext ==
  \/ Bootstrap
  \/ StartWatch
  \/ Shutdown
  \/ \E t \in Handlers : Trigger(t)
  \/ \E t \in Threads : Pass(t)

\* The program with its scheduling: every call a pass makes returns, so a
\* goroutine inside updateConfigMap goes on taking steps, and a goroutine
\* blocked in lock.Lock() gets the mutex when it is free again and again
\* (sync.Mutex hands the lock to a waiter that has waited long: starvation
\* mode).
FairSpec ==
  /\ Init /\ [][FairNext]_vars
  /\ \A t \in Threads : WF_vars(Pass(t)) /\ SF_vars(Lock(t))

\* The same instance beside other clients that write the ConfigMap.
NextExt ==
  \/ Next
  \/ \E d \in ExtData : ExternalWrite(d)

SpecExt == Init /\ [][NextExt]_vars

\* ------------------------------------------------------------------ properties
\* Positions between lock.Lock() and the deferred lock.Unlock().
InPass == {"list", "get", "create", "update", "pgrep", "kill", "ret"}

\* The names of a listing, as a set.
NameSet(namespaces) == {namespaces[i] : i \in DOMAIN namespaces}

\* The names of S in lexicographic order, from NameOf[i] on.
RECURSIVE SortedFrom(_, _)
SortedFrom(i, S) ==
  IF i > Len(NameOf) THEN <<>>
  ELSE (IF NameOf[i] \in S THEN <<NameOf[i]>> ELSE <<>>) \o SortedFrom(i + 1, S)

\* The canonical serialization of a name set: sorted, comma-joined.
Canonicalize(S) == Join(SortedFrom(1, S), ",")

\* The pass of t has listed the members.
Listed(t) == pc[t] \in AfterList /\ local[t].outcome # "listfail"

\* C1: at most one goroutine is between lock.Lock() and lock.Unlock() of
\* updateConfigMap, and the mutex is held while one is.
C1_MutualExclusion ==
  /\ Cardinality({t \in Threads : pc[t] \in InPass}) <= 1
  /\ (\E t \in Threads : pc[t] \in InPass) => lock

\* C1 witness: a callback waits for the lock while another pass is at its
\* Update call.
C1_Contention ==
  \E t, u \in Threads : t # u /\ pc[t] = "update" /\ pc[u] = "acquire"

\* C2: a pass whose List follows a successful pass with no membership change
\* in between makes no store write and sends no signal, whatever the order of
\* its listing.
C2_Idempotent ==
  \A t \in Threads :
    pc[t] = "ret" /\ local[t].afterStable =>
      local[t].wrote = "no" /\ local[t].nSignal = 0

\* C3: the value computed from a listing is the sorted, comma-joined
\* serialization of the set of names listed (the empty string for no names),
\* so it does not depend on the listing order.
C3_CanonicalValue ==
  \A t \in Threads :
    Listed(t) => local[t].newValue = Canonicalize(NameSet(local[t].namespaces))

\* C4: a pass whose Get reported not-found makes exactly one Create call, no
\* Update call, and never calls killMainContainer.
C4_CreateBeforeUpdate ==
  \A t \in Threads :
    local[t].getResult = "notfound" =>
      /\ pc[t] \in {"create", "ret"}
      /\ local[t].nCreate = (IF pc[t] = "ret" THEN 1 ELSE 0)
      /\ local[t].nUpdate = 0
      /\ local[t].nSignal = 0

\* C4 witness: a pass that listed no member has created the object after a
\* not-found Get and is returning.
C4_CreatedEmpty ==
  \E t \in Threads :
    /\ pc[t] = "ret"
    /\ local[t].getResult = "notfound"
    /\ local[t].wrote = "create"
    /\ local[t].newValue = ""
    /\ cmData = [k \in {watchKey} |-> ""]

\* C5: a pass whose Update succeeded calls killMainContainer exactly once
\* before it returns, and a pass that found the stored value equal to the
\* computed one makes no store call that writes and no killMainContainer call.
C5_ChangeTriggersSignal ==
  \A t \in Threads :
    /\ local[t].wrote = "update" =>
         /\ pc[t] \in {"pgrep", "kill", "ret"}
         /\ local[t].nSignal = (IF pc[t] = "pgrep" THEN 0 ELSE 1)
    /\ (local[t].getResult = "found" /\ local[t].stored = local[t].newValue) =>
         /\ pc[t] = "ret"
         /\ local[t].wrote = "no"
         /\ local[t].nCreate = 0 /\ local[t].nUpdate = 0 /\ local[t].nSignal = 0

\* C5 witness: a pass has updated the object, delivered SIGTERM and is
\* returning.
C5_UpdatedAndSignalled ==
  \E t \in Threads :
    /\ pc[t] = "ret"
    /\ local[t].wrote = "update"
    /\ local[t].signal = "sent"
    /\ local[t].nSignal = 1

\* The ConfigMap as the API server holds it.
Store == <<cmExists, cmData, cmVersion>>

\* C6: when the Update call of a pass fails, the pass calls killMainContainer
\* zero times, makes no second Update call, leaves the stored object as it
\* was, and returns with the process running; its return releases the lock.
C6_ConflictSafety ==
  [][\A t \in Threads :
       /\ local'[t].outcome = "updatefail" =>
            /\ pc'[t] = "ret"
            /\ local'[t].nSignal = 0
            /\ local'[t].nUpdate = 1
            /\ local'[t].wrote = "no"
            /\ proc' = "running"
       /\ (local[t].outcome # "updatefail" /\ local'[t].outcome = "updatefail") =>
            Store' = Store
       /\ (local[t].outcome = "updatefail" /\ pc'[t] # pc[t]) =>
            /\ lock' = FALSE
            /\ proc' = "running" => pc'[t] \in {"idle", "startwatch"}]_vars

\* C6 witness: the Update of a pass was refused because the object had
\* changed since its Get (a conflict), and the pass is returning.
C6_UpdateConflicted ==
  \E t \in Threads :
    /\ pc[t] = "ret"
    /\ local[t].outcome = "updatefail"
    /\ local[t].cm.version # cmVersion
    /\ lock

\* C7: an Update succeeds only when the object still carries the
\* resourceVersion the Get of the same pass returned; when another client
\* wrote between that Get and the Update, the Update fails and the stored
\* object stays as the other client left it.
C7_ConditionalUpdate ==
  [][\A t \in Threads :
       /\ (local[t].wrote = "no" /\ local'[t].wrote = "update") =>
            /\ local[t].cm.version = cmVersion
            /\ ~hist.extSinceGet
       /\ (hist.extSinceGet /\ pc[t] = "update" /\ local'[t].nUpdate = 1) =>
            /\ local'[t].outcome = "updatefail"
            /\ Store' = Store]_vars

\* C7 witness: another client replaced the data after the Get of a pass, the
\* Update of the pass has failed, and the other client's data is stored.
C7_OtherWriterKept ==
  \E t \in Threads, d \in ExtData :
    /\ pc[t] = "ret"
    /\ local[t].outcome = "updatefail"
    /\ local[t].cm.version < cmVersion
    /\ cmData = d
    /\ cmData # local[t].cm.data

\* C8: when a pass that ended successfully (create, update or no-op) returns
\* and leaves no pass in progress, the value stored under watchKey is the
\* canonical serialization of the member set the pass listed.
C8_StoredValue ==
  [][\A t \in Threads :
       (pc[t] = "ret" /\ pc'[t] \in {"idle", "startwatch"}
          /\ local[t].outcome \in Success) =>
         /\ cmExists'
         /\ ~lock'
         /\ MapGet(cmData', watchKey) = Canonicalize(NameSet(local[t].namespaces))]_vars

\* Ways killMainContainer fails.
SignalFailed == {"nopid", "killfail"}

\* C9: when the signal step fails after a successful Update, the step and the
\* return that follows leave the stored object as the Update committed it
\* (the new value, not the old one), the pass makes no further store call,
\* and it returns as a normal pass with the process running.
C9_SignalFailureKeepsWrite ==
  [][\A t \in Threads :
       /\ local'[t].signal \in SignalFailed =>
            /\ pc'[t] = "ret"
            /\ local'[t].outcome = "updated"
            /\ local'[t].nUpdate = 1 /\ local'[t].nCreate = 0
            /\ MapGet(cmData', watchKey) = local'[t].newValue
            /\ local'[t].stored # local'[t].newValue
            /\ proc' = "running"
       /\ (local[t].signal \in SignalFailed \/ local'[t].signal \in SignalFailed) =>
            Store' = Store
       /\ (local[t].signal \in SignalFailed /\ pc'[t] # pc[t] /\ proc' = "running") =>
            /\ pc'[t] \in {"idle", "startwatch"}
            /\ hist'.stable = ~hist.changed]_vars

\* C9 witness: the Update of a pass succeeded, pgrep found no process, and the
\* pass is returning.
C9_NoProcessAfterUpdate ==
  \E t \in Threads :
    /\ pc[t] = "ret"
    /\ local[t].wrote = "update"
    /\ local[t].signal = "nopid"

\* C10: the object is created successfully at most once in a run, it is never
\* deleted, and every change of an existing object is the Update of a pass.
C10_CreatedOnce ==
  [][/\ hist'.createsOk <= 1
     /\ cmExists => cmExists'
     /\ (~cmExists /\ cmExists') =>
          /\ hist.createsOk = 0
          /\ \E t \in Threads : pc[t] = "create" /\ local'[t].wrote = "create"
     /\ (cmExists /\ cmData' # cmData) =>
          \E t \in Threads : pc[t] = "update" /\ local'[t].wrote = "update"]_vars

\* C10 witness: the object has been created once and updated since.
C10_CreatedThenUpdated == hist.createsOk = 1 /\ hist.updatesOk = 1

\* C11: the process ends on an error only in Bootstrap (exit status 1); every
\* other end of the process is the answer to a termination signal, so no step
\* of a pass ends it, whatever the pass finds in the existing object.
C11_OnlyBootstrapTerminates ==
  [][(proc = "running" /\ proc' # "running") =>
       \/ pc[Main] = "boot" /\ proc' = "exit1"
       \/ proc' \in {"exit0", "killed"}]_vars

\* C12: a termination request never ends the process while a pass is between
\* lock.Lock() and its return, so no pass whose Update succeeded is cut before
\* its killMainContainer call.
C12_ShutdownWaitsForPass ==
  [][(proc = "running" /\ proc' = "exit0") =>
       \A t \in Threads : pc[t] \notin InPass]_vars

\* C13: a pass whose Get failed with an error other than not-found makes no
\* Create call, no Update call and no killMainContainer call; Create is called
\* only after a not-found Get.
C13_GetErrorAborts ==
  \A t \in Threads :
    /\ local[t].getResult = "error" =>
         /\ pc[t] = "ret"
         /\ local[t].nCreate = 0 /\ local[t].nUpdate = 0 /\ local[t].nSignal = 0
    /\ (pc[t] = "create" \/ local[t].nCreate > 0) => local[t].getResult = "notfound"

\* C14: when the List call of a pass fails, the pass goes straight to its
\* return: it makes no Get, Create or Update call and no killMainContainer
\* call, the stored object is as it was, and returning releases the lock.
C14_ListFailureNoStoreCall ==
  [][\A t \in Threads :
       /\ (pc[t] = "list" /\ local'[t].outcome = "listfail") =>
            /\ pc'[t] = "ret"
            /\ local'[t].getResult = "none"
            /\ local'[t].nCreate = 0 /\ local'[t].nUpdate = 0 /\ local'[t].nSignal = 0
            /\ <<cmExists, cmData, cmVersion>>' = <<cmExists, cmData, cmVersion>>
       /\ (local[t].outcome = "listfail" /\ pc'[t] # pc[t] /\ proc' = "running") =>
            /\ pc[t] = "ret"
            /\ pc'[t] \in {"idle", "startwatch"}
            /\ lock /\ ~lock'
            /\ <<cmExists, cmData, cmVersion>>' = <<cmExists, cmData, cmVersion>>]_vars

C14_ListFailed ==
  \E t \in Threads :
    /\ pc[t] = "ret" /\ local[t].outcome = "listfail"
    /\ cmExists /\ MapGet(cmData, watchKey) # Canonicalize({NameOf[n] : n \in members})

\* C15: main() runs one pass of its own, from Bootstrap, and starts the watch
\* only when that pass has returned and released the lock; no callback enters
\* updateConfigMap before the watch is started, and main() makes no second pass.
C15_StartupOrdering ==
  [][/\ (~watchStarted /\ watchStarted') =>
          /\ pc[Main] = "startwatch"
          /\ ~lock
          /\ \A h \in Handlers : pc[h] = "idle"
     /\ (pc'[Main] = "startwatch" /\ pc[Main] # "startwatch") => pc[Main] = "ret"
     /\ (pc'[Main] = "acquire" /\ pc[Main] # "acquire") => pc[Main] = "boot"
     /\ pc'[Main] = "boot" => pc[Main] = "boot"
     /\ \A h \in Handlers :
          pc'[h] \notin {"idle", "dead"} => watchStarted /\ pc[Main] = "blocked"]_vars

C15_CallbackAfterInitialPass ==
  /\ watchStarted
  /\ pc[Main] = "blocked"
  /\ \E h \in Handlers : pc[h] \in InPass

\* C16: once a pass has ended successfully and membership has not changed
\* since its List, the stored value is the canonical serialization of the
\* member set, and it stays so with no further trigger.
C16_ConvergedValue ==
  hist.stable =>
    /\ cmExists
    /\ MapGet(cmData, watchKey) = Canonicalize({NameOf[n] : n \in members})

\* C17: one call of killMainContainer delivers SIGTERM to at most one process,
\* the first pid of the output of pgrep and no other; when pgrep reports no
\* process no signal is sent, and the pass returns with the process running.
C17_SignalsFirstMatchOnly ==
  \A t \in Threads :
    /\ Len(local[t].killed) <= 1
    /\ local[t].killed # <<>> =>
         /\ Len(local[t].pidList) > 0
         /\ local[t].killed = <<local[t].pidList[1]>>
    /\ local[t].signal = "nopid" =>
         /\ local[t].pidList = <<>>
         /\ local[t].killed = <<>>
         /\ pc[t] = "ret"
         /\ proc = "running"

C17_SeveralMatches ==
  \E t \in Threads :
    /\ pc[t] = "ret"
    /\ Len(local[t].pidList) >= 2
    /\ local[t].killed = <<local[t].pidList[1]>>

\* C18: the List call of a pass is made with the lock held and while no other
\* pass is between its own List call and its return, so the pass that lists
\* first writes first; a write to the store is made by the one pass that has
\* listed; and every pass makes its own List call and its own Get before it
\* writes.
C18_NoStaleOverwrite ==
  [][\A t \in Threads :
       /\ (pc[t] = "list" /\ pc'[t] # "list" /\ proc' = "running") =>
            /\ lock
            /\ \A u \in Threads \ {t} : pc[u] \notin InPass
       /\ (local[t].wrote = "no" /\ local'[t].wrote # "no") =>
            /\ Listed(t)
            /\ \A u \in Threads \ {t} : pc[u] \notin InPass
       /\ (pc'[t] = "get" /\ pc[t] # "get") => pc[t] = "list"
       /\ (pc'[t] \in {"create", "update"} /\ pc[t] # pc'[t]) => pc[t] = "get"
       /\ (pc'[t] = "list" /\ pc[t] # "list") => pc[t] = "acquire"]_vars

C18_WriteWhileOthersWait ==
  \E t, u \in Handlers :
    /\ t # u
    /\ local[t].wrote = "update"
    /\ pc[u] = "acquire"

\* C19: a successful Update stores the object Get returned with the entry of
\* watchKey set to newValue: the same keys and watchKey, every other key with
\* the value Get returned; a successful Create stores data holding watchKey
\* alone, with newValue.
C19_WriteFrame ==
  [][\A t \in Threads :
       /\ (local[t].wrote = "no" /\ local'[t].wrote = "update") =>
            /\ cmExists /\ cmExists'
            /\ DOMAIN cmData' = (DOMAIN local[t].cm.data) \cup {watchKey}
            /\ cmData'[watchKey] = local[t].newValue
            /\ \A k \in (DOMAIN local[t].cm.data) \ {watchKey} :
                 cmData'[k] = local[t].cm.data[k]
       /\ (local[t].wrote = "no" /\ local'[t].wrote = "create") =>
            /\ ~cmExists /\ cmExists'
            /\ DOMAIN cmData' = {watchKey}
            /\ cmData'[watchKey] = local[t].newValue]_vars

C19_OtherKeyKept ==
  \E t \in Threads :
    /\ local[t].wrote = "update"
    /\ otherKey \in DOMAIN cmData
    /\ cmData[otherKey] = "v"
    /\ cmData[watchKey] = local[t].newValue
    /\ local[t].newValue # "a"

\* C20: the lock is held exactly while a pass is between lock.Lock() and its
\* return, whatever the way the pass ends, and every goroutine that has called
\* updateConfigMap gets the lock and returns (or the process has ended).
C20_LockReleasedAndProgress ==
  /\ [](lock <=> \E t \in Threads : pc[t] \in InPass)
  /\ \A t \in Threads :
       (pc[t] = "acquire") ~> (pc[t] \in {"idle", "startwatch", "dead"})

C20_ReturnedAfterWaiting ==
  \E t, u \in Handlers :
    /\ t # u
    /\ pc[t] = "ret" /\ local[t].outcome = "listfail"
    /\ pc[u] = "acquire"

====
